---- MODULE Spec2Model ----
(***************************************************************************)
(* tempstore: a metadata index (projects / versions / files, SQLite) and a *)
(* content-addressed blob directory, composed by the Engine.               *)
(*                                                                         *)
(* Strings are sequences of one-character strings; "LF" stands for the     *)
(* newline character.  A SHA-256 text is kept in run-length form: hexlen   *)
(* leading lowercase-hex characters carrying the digest `id`, followed by  *)
(* the characters of `tail`.  The rowid of a files row is left out: no     *)
(* statement of the program reads it.  Each Database method runs as one    *)
(* step: its statements run inside one SQLite transaction (or are a single *)
(* statement), which serialises it against the other connections.          *)
(***************************************************************************)
EXTENDS Integers, Sequences, FiniteSets, TLC

VARIABLES
    now,        \* int(time.time())
    projects,   \* table projects(id, name)
    versions,   \* table versions(id, project_id, name, timestamp, star)
    files,      \* table files(id, version_id, name, sha256)
    dir,        \* the blob directory: file name -> content, complete, mtime
    pc,         \* where each process is in its Engine call
    loc,        \* the local variables of each process's call
    ret,        \* what each process's last Engine call returned or raised
    last        \* the last direct call of a function or Database method

dbvars == <<projects, versions, files>>
enginevars == <<dir, pc, loc, ret>>
vars == <<now, projects, versions, files, dir, pc, loc, ret, last>>

----------------------------------------------------------------------------
(* Bounds of the model *)

MaxTime == 120       \* the clock stops here when the Engine is called
MaxTimeDb == 60      \* the clock stops here when the Database is called
MaxNameLen == 3      \* longest string given to validate_name on its own
MaxId == 2           \* largest rowid of a versions row
MaxExpiry == 190000  \* longest time to expiry given to format_expiry

(* Inputs *)

TickSteps == {60}
Ages == {0, 60}
UploadAges == {0}
Alphabet == {"a", ".", "-", "?", "LF"}
ProjectNames == {<<"p">>}
VersionNames == {<<"1">>, <<"2">>}
FileNames == {<<"f">>, <<"g">>}
BadNames == {<<"?">>}
Contents == {1, 2}
Clients == {"u1"}     \* the processes that upload and download
Cleaners == {"gc"}    \* the process that runs start.py --cleanup
BlobClients == {"u1", "u2"}   \* the processes that call create_blob
BlobAges == {0, 60}
StarValues == {"True", "False", "1"}   \* Python values, as their repr
ListProjectNames == {<<"p">>, <<"p", "1">>, <<"Z">>}

Max(S) == CHOOSE x \in S : \A y \in S : y <= x

SeqsUpTo(S, n) == UNION {[1..k -> S] : k \in 0..n}

----------------------------------------------------------------------------
(* database.py: validators *)

\* the character class [0-9a-zA-Z_.-], over the characters the model uses
NameCharClass == {"0", "1", "2", "9", "a", "b", "f", "g", "p", "q", "z",
                  "A", "Z", "_", ".", "-"}

\* re.compile('^[0-9a-zA-Z_.-]+$').search(name): '^' matches at the start
\* only, '$' matches at the end of the string and also just before a
\* newline that is the last character of the string.
name_regex_search(name) ==
    \E k \in 1..Len(name) :
        /\ \A i \in 1..k : name[i] \in NameCharClass
        /\ \/ k = Len(name)
           \/ k = Len(name) - 1 /\ name[Len(name)] = "LF"

validate_name(name) ==
    IF name \in {<<".">>, <<".", ".">>} THEN "Invalid name"
    ELSE IF ~name_regex_search(name) THEN "Invalid name"
    ELSE "OK"

HexLen == 64

\* re.compile('^[0-9a-f]{64}$').search(sha256)
validate_sha256(sha256) ==
    IF sha256.hexlen = HexLen /\ sha256.tail \in {<<>>, <<"LF">>}
    THEN "OK" ELSE "Invalid SHA-256 hash"

----------------------------------------------------------------------------
(* datastore.py: hashing *)

\* as sha256_sum, with one digest for every content
sha256_sum_collide(content) == [hexlen |-> HexLen, id |-> 1, tail |-> <<>>]

\* sha256_sum(stream): 64 hex characters; distinct contents give distinct
\* digests (collision resistance of SHA-256)
sha256_sum(content) == [hexlen |-> HexLen, id |-> content, tail |-> <<>>]

Sha256s == {sha256_sum(c) : c \in Contents}

(* datastore.py: the directory *)

GraceWindow == 60

\* os.path.join(self.data_dir, sha256): the file name is the hash itself
BlobName(sha256) == [sha |-> sha256, suffix |-> ""]

\* as TempName, writing in place under the canonical name
TempNameCanonical(sha256, p) == [sha |-> sha256, suffix |-> ""]

\* file_path + '-' + uuid.uuid4().hex: the suffix is unique to the call,
\* here the process making it
TempName(sha256, p) == [sha |-> sha256, suffix |-> p]

\* as InGraceWindow, with a window twice as long
InGraceWindowDouble(mtime, t) == mtime > t - 2 * GraceWindow

\* os.stat(file_path).st_mtime > now - 60
InGraceWindow(mtime, t) == mtime > t - GraceWindow

\* as InSha256s, comparing the path with the hashes: never a member
InSha256sNever(file_name, sha256s) == FALSE

\* file_name in sha256s: equality of the file name with one of the hashes
InSha256s(file_name, sha256s) ==
    file_name.suffix = "" /\ file_name.sha \in sha256s

Exists(d, name) == name \in DOMAIN d

\* d with file `name` created or overwritten
WithFile(d, name, file) ==
    [n \in DOMAIN d \cup {name} |-> IF n = name THEN file ELSE d[n]]

\* as os_unlink, leaving the file in place
os_unlink_skipped(d, name) == d

\* os.unlink(name)
os_unlink(d, name) == [n \in DOMAIN d \ {name} |-> d[n]]

\* as os_replace, leaving the file under its temporary name
os_replace_skipped(d, src, dst) == d

\* os.replace(src, dst): dst is created or replaced by the file of src,
\* in one step; src must exist
os_replace(d, src, dst) == os_unlink(WithFile(d, dst, d[src]), src)

\* Datastore.retrieve_blob(sha256): the stream of the file opened, or the
\* exception
retrieve_blob(d, sha256) ==
    IF validate_sha256(sha256) # "OK"
    THEN [err |-> validate_sha256(sha256), val |-> <<>>]
    ELSE IF ~Exists(d, BlobName(sha256))
    THEN [err |-> "Blob not found", val |-> <<>>]
    ELSE [err |-> "OK", val |-> <<d[BlobName(sha256)].content,
                                  d[BlobName(sha256)].complete>>]

----------------------------------------------------------------------------
(* database.py: the tables and the statements *)

DB == [projects |-> projects, versions |-> versions, files |-> files]

\* INTEGER PRIMARY KEY: one more than the largest rowid of the table
NewId(T) == IF T = {} THEN 1 ELSE Max({r.id : r \in T}) + 1

\* as InsertOrIgnoreProject, with no unique_project constraint
InsertProjectAlways(P, name) == P \cup {[id |-> NewId(P), name |-> name]}

\* INSERT OR IGNORE INTO projects(name): unique_project UNIQUE (name)
InsertOrIgnoreProject(P, name) ==
    IF \E r \in P : r.name = name THEN P
    ELSE P \cup {[id |-> NewId(P), name |-> name]}

\* as InsertOrIgnoreVersion, written as INSERT OR REPLACE: an existing row
\* takes the new timestamp
InsertOrReplaceVersion(V, project_id, name, timestamp) ==
    IF \E r \in V : r.project_id = project_id /\ r.name = name
    THEN {IF r.project_id = project_id /\ r.name = name
          THEN [r EXCEPT !.timestamp = timestamp] ELSE r : r \in V}
    ELSE V \cup {[id |-> NewId(V), project_id |-> project_id, name |-> name,
                  timestamp |-> timestamp, star |-> FALSE]}

\* INSERT OR IGNORE INTO versions(project_id, name, timestamp):
\* unique_version UNIQUE (project_id, name), star DEFAULT 0
InsertOrIgnoreVersion(V, project_id, name, timestamp) ==
    IF \E r \in V : r.project_id = project_id /\ r.name = name THEN V
    ELSE V \cup {[id |-> NewId(V), project_id |-> project_id, name |-> name,
                  timestamp |-> timestamp, star |-> FALSE]}

\* as InsertFile, written as INSERT OR REPLACE: an existing row is
\* overwritten and no IntegrityError is raised
InsertOrReplaceFile(F, version_id, name, sha256) ==
    [ok |-> TRUE,
     rows |-> {r \in F : ~(r.version_id = version_id /\ r.name = name)}
              \cup {[version_id |-> version_id,
                      name |-> name, sha256 |-> sha256]}]

\* INSERT INTO files(version_id, name, sha256): unique_file UNIQUE
\* (version_id, name); ok = FALSE is sqlite3.IntegrityError
InsertFile(F, version_id, name, sha256) ==
    IF \E r \in F : r.version_id = version_id /\ r.name = name
    THEN [ok |-> FALSE, rows |-> F]
    ELSE [ok |-> TRUE,
          rows |-> F \cup {[version_id |-> version_id,
                            name |-> name, sha256 |-> sha256]}]

\* Database.create_file: the validations, then one transaction; the result
\* is the error message ("OK" when none) and the tables afterwards.
create_file(db, project_name, version_name, file_name, sha256, timestamp) ==
    IF validate_name(project_name) # "OK"
    THEN [err |-> validate_name(project_name), db |-> db]
    ELSE IF validate_name(version_name) # "OK"
    THEN [err |-> validate_name(version_name), db |-> db]
    ELSE IF validate_name(file_name) # "OK"
    THEN [err |-> validate_name(file_name), db |-> db]
    ELSE IF validate_sha256(sha256) # "OK"
    THEN [err |-> validate_sha256(sha256), db |-> db]
    ELSE
      LET P1 == InsertOrIgnoreProject(db.projects, project_name)
          project_id == (CHOOSE r \in P1 : r.name = project_name).id
          V1 == InsertOrIgnoreVersion(db.versions, project_id,
                                      version_name, timestamp)
          version_id == (CHOOSE r \in V1 : r.project_id = project_id
                                           /\ r.name = version_name).id
          ins == InsertFile(db.files, version_id, file_name, sha256)
      IN IF ins.ok
         THEN [err |-> "OK",
               db |-> [projects |-> P1, versions |-> V1, files |-> ins.rows]]
         ELSE [err |-> "Unable to create file", db |-> db]   \* ROLLBACK

\* the rows of the join projects-versions-files for the three names
FileRows(db, project_name, version_name, file_name) ==
    {f \in db.files : \E p \in db.projects, v \in db.versions :
        /\ p.id = v.project_id /\ v.id = f.version_id
        /\ p.name = project_name /\ v.name = version_name
        /\ f.name = file_name}

\* the rows of the join versions-projects for the two names
VersionRows(db, project_name, version_name) ==
    {v \in db.versions : \E p \in db.projects :
        /\ p.id = v.project_id
        /\ p.name = project_name /\ v.name = version_name}

\* Database.retrieve_file_sha256
retrieve_file_sha256(db, project_name, version_name, file_name) ==
    LET rows == FileRows(db, project_name, version_name, file_name) IN
    IF validate_name(project_name) # "OK"
    THEN [err |-> validate_name(project_name), val |-> <<>>]
    ELSE IF validate_name(version_name) # "OK"
    THEN [err |-> validate_name(version_name), val |-> <<>>]
    ELSE IF validate_name(file_name) # "OK"
    THEN [err |-> validate_name(file_name), val |-> <<>>]
    ELSE IF Cardinality(rows) # 1
    THEN [err |-> "File not found", val |-> <<>>]
    ELSE [err |-> "OK", val |-> (CHOOSE f \in rows : TRUE).sha256]

\* the code points of the characters the model uses
CharCode ==
    [c \in NameCharClass \cup {"?", "LF"} |->
        CASE c = "LF" -> 10 [] c = "-" -> 45 [] c = "." -> 46
          [] c = "0" -> 48 [] c = "1" -> 49 [] c = "2" -> 50 [] c = "9" -> 57
          [] c = "?" -> 63 [] c = "A" -> 65 [] c = "Z" -> 90 [] c = "_" -> 95
          [] c = "a" -> 97 [] c = "b" -> 98 [] c = "f" -> 102
          [] c = "g" -> 103 [] c = "p" -> 112 [] c = "q" -> 113
          [] c = "z" -> 122]

\* a < b for two TEXT values under the BINARY collation of SQLite: the
\* first character that differs decides, and a proper prefix comes first
NameLess(a, b) ==
    LET n == IF Len(a) < Len(b) THEN Len(a) ELSE Len(b)
        diff == {i \in 1..n : a[i] # b[i]}
    IN IF diff = {} THEN Len(a) < Len(b)
       ELSE LET i == CHOOSE j \in diff : \A k \in diff : j <= k
            IN CharCode[a[i]] < CharCode[b[i]]

\* ORDER BY: the lists of all the rows of S in which no row comes after a
\* row that Before puts after it; Before is the set of pairs <<r, s>> with
\* r sorted strictly before s, and rows it does not order come in any order
RECURSIVE OrderBy(_, _)
OrderBy(S, Before) ==
    IF S = {} THEN {<<>>}
    ELSE UNION {{<<m>> \o t : t \in OrderBy(S \ {m}, Before)}
                : m \in {r \in S : \A x \in S : <<x, r>> \notin Before}}

\* ORDER BY name ASC
NameAsc(S) == {<<r, t>> \in S \X S : NameLess(r.name, t.name)}

\* as TimestampDesc, written ORDER BY timestamp ASC
TimestampAsc(S) == {<<r, t>> \in S \X S : r.timestamp < t.timestamp}

\* ORDER BY timestamp DESC
TimestampDesc(S) == {<<r, t>> \in S \X S : r.timestamp > t.timestamp}

\* Database.retrieve_projects: SELECT name FROM projects ORDER BY name ASC;
\* vals is the set of the lists the statement may return
retrieve_projects(db) ==
    LET rows == {[name |-> p.name] : p \in db.projects} IN
    [err |-> "OK", vals |-> OrderBy(rows, NameAsc(rows))]

\* Database.retrieve_versions
retrieve_versions(db, project_name) ==
    LET prows == {p \in db.projects : p.name = project_name} IN
    IF validate_name(project_name) # "OK"
    THEN [err |-> validate_name(project_name), vals |-> {<<>>}]
    ELSE IF Cardinality(prows) # 1
    THEN [err |-> "Project not found", vals |-> {<<>>}]       \* ROLLBACK
    ELSE LET project_id == (CHOOSE p \in prows : TRUE).id
             rows == {[name |-> v.name, timestamp |-> v.timestamp,
                       star |-> v.star]
                      : v \in {w \in db.versions : w.project_id = project_id}}
         IN [err |-> "OK", vals |-> OrderBy(rows, TimestampDesc(rows))]

\* Database.retrieve_files
retrieve_files(db, project_name, version_name) ==
    LET vrows == VersionRows(db, project_name, version_name) IN
    IF validate_name(project_name) # "OK"
    THEN [err |-> validate_name(project_name), vals |-> {<<>>}]
    ELSE IF validate_name(version_name) # "OK"
    THEN [err |-> validate_name(version_name), vals |-> {<<>>}]
    ELSE IF Cardinality(vrows) # 1
    THEN [err |-> "Version not found", vals |-> {<<>>}]       \* ROLLBACK
    ELSE LET version_id == (CHOOSE v \in vrows : TRUE).id
             rows == {[name |-> f.name, sha256 |-> f.sha256]
                      : f \in {g \in db.files : g.version_id = version_id}}
         IN [err |-> "OK", vals |-> OrderBy(rows, NameAsc(rows))]

\* as retrieve_sha256s, selecting the files of the starred versions only
retrieve_sha256s_starred(db) ==
    {f.sha256 : f \in {g \in db.files :
                          \E v \in db.versions : v.id = g.version_id /\ v.star}}

\* Database.retrieve_sha256s: SELECT DISTINCT sha256 FROM files
retrieve_sha256s(db) == {f.sha256 : f \in db.files}

\* a Python value given as star, written as its repr; True and False are
\* the two booleans, and 1 == True but 1 is not True
PyTrue == "True"
PyFalse == "False"

\* validate_star(star): star is not True and star is not False
validate_star(star) ==
    IF star # PyTrue /\ star # PyFalse THEN "Invalid star state" ELSE "OK"

\* UPDATE versions SET star=? WHERE id=?, star bound as 1 or 0
UpdateStar(V, version_id, star) ==
    {IF v.id = version_id THEN [v EXCEPT !.star = (star = PyTrue)] ELSE v
     : v \in V}

\* as update_star, setting the star to the opposite of what the row has
update_star_toggle(db, project_name, version_name, star) ==
    LET rows == VersionRows(db, project_name, version_name) IN
    IF validate_name(project_name) # "OK"
    THEN [err |-> validate_name(project_name), db |-> db]
    ELSE IF validate_name(version_name) # "OK"
    THEN [err |-> validate_name(version_name), db |-> db]
    ELSE IF validate_star(star) # "OK"
    THEN [err |-> validate_star(star), db |-> db]
    ELSE IF Cardinality(rows) # 1
    THEN [err |-> "Version not found", db |-> db]
    ELSE LET version_id == (CHOOSE v \in rows : TRUE).id IN
         [err |-> "OK",
          db |-> [db EXCEPT !.versions =
                    {IF v.id = version_id THEN [v EXCEPT !.star = ~v.star]
                     ELSE v : v \in db.versions}]]

\* as update_star, with validate_star called after the version is looked up
update_star_lookup_first(db, project_name, version_name, star) ==
    LET rows == VersionRows(db, project_name, version_name) IN
    IF validate_name(project_name) # "OK"
    THEN [err |-> validate_name(project_name), db |-> db]
    ELSE IF validate_name(version_name) # "OK"
    THEN [err |-> validate_name(version_name), db |-> db]
    ELSE IF Cardinality(rows) # 1
    THEN [err |-> "Version not found", db |-> db]
    ELSE IF validate_star(star) # "OK"
    THEN [err |-> validate_star(star), db |-> db]
    ELSE LET version_id == (CHOOSE v \in rows : TRUE).id IN
         [err |-> "OK",
          db |-> [db EXCEPT !.versions =
                    UpdateStar(db.versions, version_id, star)]]

\* Database.update_star: the validations, then one transaction
update_star(db, project_name, version_name, star) ==
    LET rows == VersionRows(db, project_name, version_name) IN
    IF validate_name(project_name) # "OK"
    THEN [err |-> validate_name(project_name), db |-> db]
    ELSE IF validate_name(version_name) # "OK"
    THEN [err |-> validate_name(version_name), db |-> db]
    ELSE IF validate_star(star) # "OK"
    THEN [err |-> validate_star(star), db |-> db]
    ELSE IF Cardinality(rows) # 1
    THEN [err |-> "Version not found", db |-> db]            \* ROLLBACK
    ELSE LET version_id == (CHOOSE v \in rows : TRUE).id IN
         [err |-> "OK",
          db |-> [db EXCEPT !.versions =
                    UpdateStar(db.versions, version_id, star)]]

\* as ObsoleteRows, without the star=0 condition
ObsoleteRowsAnyStar(V, timestamp) ==
    {v \in V : v.timestamp <= timestamp}

\* as ObsoleteRows, with timestamp<? for timestamp<=?
ObsoleteRowsStrict(V, timestamp) ==
    {v \in V : v.star = FALSE /\ v.timestamp < timestamp}

\* DELETE FROM versions WHERE star=0 AND timestamp<=?
ObsoleteRows(V, timestamp) ==
    {v \in V : v.star = FALSE /\ v.timestamp <= timestamp}

\* as CascadeFiles, with no ON DELETE CASCADE: the file rows stay
CascadeFilesOff(F, deleted) == F

\* FOREIGN KEY(version_id) REFERENCES versions(id) ON DELETE CASCADE
CascadeFiles(F, deleted) ==
    {f \in F : \A v \in deleted : f.version_id # v.id}

\* as delete_obsolete_versions, deleting also the projects that are left
\* with no version
delete_obsolete_versions_and_projects(db, timestamp) ==
    LET deleted == ObsoleteRows(db.versions, timestamp)
        kept == db.versions \ deleted IN
    [projects |-> {p \in db.projects : \E v \in kept : v.project_id = p.id},
     versions |-> kept,
     files |-> CascadeFiles(db.files, deleted)]

\* as delete_obsolete_versions, with the DELETE statement left out
delete_obsolete_versions_skipped(db, timestamp) == db

\* Database.delete_obsolete_versions, timestamp = int(time.time()) - age
delete_obsolete_versions(db, timestamp) ==
    LET deleted == ObsoleteRows(db.versions, timestamp) IN
    [db EXCEPT !.versions = db.versions \ deleted,
               !.files = CascadeFiles(db.files, deleted)]

----------------------------------------------------------------------------
(* engine.py *)

\* the obsolete_age given to Engine(...): start.py gives 30 days, the
\* model two minutes
ObsoleteAge == 120

\* str(n) for n >= 0: the decimal digits, most significant first
DigitChars == <<"0", "1", "2", "3", "4", "5", "6", "7", "8", "9">>

RECURSIVE str(_)
str(n) ==
    IF n < 10 THEN <<DigitChars[n + 1]>>
    ELSE str(n \div 10) \o <<DigitChars[(n % 10) + 1]>>

\* as format_unit, with the plural taken for every expiry >= 1
format_unit_plural_one(expiry, unit) ==
    <<str(expiry), " ", unit, IF expiry >= 1 THEN "s" ELSE "">>

\* format_unit(expiry, unit): str(expiry) + ' ' + unit + plural, kept as
\* the list of the pieces the string is made of
format_unit(expiry, unit) ==
    <<str(expiry), " ", unit, IF expiry > 1 THEN "s" ELSE "">>

\* format_approximate(expiry), expiry > 0
format_approximate(expiry) ==
    IF ~(expiry >= 60) THEN format_unit(expiry, "second")
    ELSE LET minutes == (expiry + 30) \div 60 IN
         IF ~(minutes >= 60) THEN format_unit(minutes, "minute")
         ELSE LET hours == (minutes + 30) \div 60 IN
              IF ~(hours >= 24) THEN format_unit(hours, "hour")
              ELSE format_unit((hours + 12) \div 24, "day")

\* as format_expiry, with expiry < 0 for expiry <= 0
format_expiry_strict(expiry) ==
    IF expiry < 0 THEN <<"expired">>
    ELSE <<"expires in ">> \o format_approximate(expiry)

\* format_expiry(expiry)
format_expiry(expiry) ==
    IF expiry <= 0 THEN <<"expired">>
    ELSE <<"expires in ">> \o format_approximate(expiry)

\* Engine.list_projects
list_projects(db) == retrieve_projects(db)

\* datetime.datetime.fromtimestamp(timestamp).strftime('%Y-%m-%d'): the
\* calendar day, kept as the number of days since the epoch
strftime(timestamp) == <<"%Y-%m-%d", timestamp \div 86400>>

\* Engine.list_versions at time t: the versions of the database, each
\* with its date, followed by the time to expiry when it has no star
list_versions(db, project_name, t) ==
    LET r == retrieve_versions(db, project_name)
        date(version) ==
            IF ~version.star
            THEN strftime(version.timestamp) \o <<", ">>
                 \o format_expiry(version.timestamp + ObsoleteAge - t)
            ELSE strftime(version.timestamp)
    IN IF r.err # "OK" THEN r
       ELSE [err |-> "OK",
             vals |-> {[i \in 1..Len(val) |->
                          [name |-> val[i].name,
                           timestamp |-> val[i].timestamp,
                           star |-> val[i].star,
                           date |-> date(val[i])]] : val \in r.vals}]

\* Engine.download run without interruption
download(db, d, project_name, version_name, file_name) ==
    LET r == retrieve_file_sha256(db, project_name, version_name, file_name)
    IN IF r.err # "OK" THEN r ELSE retrieve_blob(d, r.val)

----------------------------------------------------------------------------
(* Direct calls *)

NoCall == [op |-> "none", err |-> "OK", val |-> <<>>]

Procs == Clients \cup Cleaners \cup BlobClients

Idle == [op |-> "none"]
NoReturn == [op |-> "none", err |-> "OK", val |-> <<>>]

\* Engine.create(): an empty directory, the schema with no rows
Init ==
    /\ now = 0
    /\ projects = {}
    /\ versions = {}
    /\ files = {}
    /\ dir = [n \in {} |-> n]
    /\ pc = [p \in Procs |-> "idle"]
    /\ loc = [p \in Procs |-> Idle]
    /\ ret = [p \in Procs |-> NoReturn]
    /\ last = NoCall

SetDB(db) ==
    /\ projects' = db.projects
    /\ versions' = db.versions
    /\ files' = db.files

Tick(d) ==
    /\ now' = now + d
    /\ UNCHANGED <<projects, versions, files, enginevars, last>>

Return(p, r) ==
    /\ pc' = [pc EXCEPT ![p] = "idle"]
    /\ loc' = [loc EXCEPT ![p] = Idle]
    /\ ret' = [ret EXCEPT ![p] = r]

\* the call goes on; what the previous call returned is forgotten
Goto(p, label, locals) ==
    /\ pc' = [pc EXCEPT ![p] = label]
    /\ loc' = [loc EXCEPT ![p] = locals]
    /\ ret' = [ret EXCEPT ![p] = NoReturn]

----------------------------------------------------------------------------
(* Engine.upload(project_name, version_name, file_name, stream, age) *)

\* create_blob: sha256_sum(stream), then open(temp_file_path, 'xb')
upload_open(p, project_name, version_name, file_name, content, age) ==
    LET sha256 == sha256_sum(content)
        temp == TempName(sha256, p) IN
    /\ pc[p] = "idle"
    /\ ~Exists(dir, temp)
    /\ dir' = WithFile(dir, temp,
                       [content |-> content, complete |-> FALSE, mtime |-> now])
    /\ Goto(p, "write", [op |-> "upload", project_name |-> project_name,
                         version_name |-> version_name, file_name |-> file_name,
                         content |-> content, age |-> age, sha256 |-> sha256])
    /\ UNCHANGED <<now, dbvars, last>>

\* create_blob: the writes, flush, fsync and close; they go to the open
\* file even when its name has been unlinked
upload_write(p) ==
    LET temp == TempName(loc[p].sha256, p) IN
    /\ pc[p] = "write"
    /\ dir' = IF Exists(dir, temp)
              THEN WithFile(dir, temp, [content |-> loc[p].content,
                                        complete |-> TRUE, mtime |-> now])
              ELSE dir
    /\ Goto(p, "utime", loc[p])
    /\ UNCHANGED <<now, dbvars, last>>

\* create_blob: os.utime(temp_file_path, (timestamp, timestamp))
upload_utime(p) ==
    LET temp == TempName(loc[p].sha256, p) IN
    /\ pc[p] = "utime"
    /\ IF Exists(dir, temp)
       THEN /\ dir' = WithFile(dir, temp,
                               [dir[temp] EXCEPT !.mtime = now - loc[p].age])
            /\ Goto(p, "replace", loc[p])
       ELSE /\ dir' = dir
            /\ Return(p, [op |-> loc[p].op, err |-> "FileNotFoundError",
                          val |-> <<>>])
    /\ UNCHANGED <<now, dbvars, last>>

\* create_blob: os.replace(temp_file_path, file_path); upload goes on to
\* create_file, create_blob called on its own returns the hash
upload_replace(p) ==
    LET temp == TempName(loc[p].sha256, p) IN
    /\ pc[p] = "replace"
    /\ IF Exists(dir, temp)
       THEN /\ dir' = os_replace(dir, temp, BlobName(loc[p].sha256))
            /\ IF loc[p].op = "upload"
               THEN Goto(p, "create_file", loc[p])
               ELSE Return(p, [op |-> "create_blob", err |-> "OK",
                               val |-> loc[p].sha256])
       ELSE /\ dir' = dir
            /\ Return(p, [op |-> loc[p].op, err |-> "FileNotFoundError",
                          val |-> <<>>])
    /\ UNCHANGED <<now, dbvars, last>>

\* self.database.create_file(project_name, version_name, file_name, sha256,
\* age), and the return of upload
upload_create_file(p) ==
    LET r == create_file(DB, loc[p].project_name, loc[p].version_name,
                         loc[p].file_name, loc[p].sha256, now - loc[p].age) IN
    /\ pc[p] = "create_file"
    /\ \A v \in r.db.versions : v.id <= MaxId
    /\ SetDB(r.db)
    /\ Return(p, [op |-> "upload", err |-> r.err,
                  val |-> <<loc[p].project_name, loc[p].version_name,
                            loc[p].file_name, loc[p].content>>])
    /\ UNCHANGED <<now, dir, last>>

----------------------------------------------------------------------------
(* Engine.download(project_name, version_name, file_name) *)

\* self.database.retrieve_file_sha256(project_name, version_name, file_name)
download_retrieve_file_sha256(p, project_name, version_name, file_name) ==
    LET r == retrieve_file_sha256(DB, project_name, version_name, file_name)
    IN
    /\ pc[p] = "idle"
    /\ IF r.err = "OK"
       THEN Goto(p, "retrieve_blob", [op |-> "download", sha256 |-> r.val])
       ELSE Return(p, [op |-> "download", err |-> r.err, val |-> <<>>])
    /\ UNCHANGED <<now, dbvars, dir, last>>

\* self.datastore.retrieve_blob(sha256), and the return of download
download_retrieve_blob(p) ==
    LET r == retrieve_blob(dir, loc[p].sha256) IN
    /\ pc[p] = "retrieve_blob"
    /\ Return(p, [op |-> "download", err |-> r.err, val |-> r.val])
    /\ UNCHANGED <<now, dbvars, dir, last>>

----------------------------------------------------------------------------
(* Engine.star_version (star = TRUE), Engine.unstar_version (star = FALSE) *)

star_version(p, project_name, version_name, star) ==
    LET r == update_star(DB, project_name, version_name,
                         IF star THEN PyTrue ELSE PyFalse) IN
    /\ pc[p] = "idle"
    /\ SetDB(r.db)
    /\ Return(p, [op |-> "star", err |-> r.err, val |-> <<>>])
    /\ UNCHANGED <<now, dir, last>>

----------------------------------------------------------------------------
(* Engine.cleanup() *)

\* self.database.delete_obsolete_versions(self.obsolete_age)
cleanup_delete_obsolete_versions(p) ==
    /\ pc[p] = "idle"
    /\ SetDB(delete_obsolete_versions(DB, now - ObsoleteAge))
    /\ Goto(p, "retrieve_sha256s", [op |-> "cleanup"])
    /\ UNCHANGED <<now, dir, last>>

\* sha256s = self.database.retrieve_sha256s()
cleanup_retrieve_sha256s(p) ==
    /\ pc[p] = "retrieve_sha256s"
    /\ Goto(p, "listdir", [op |-> "cleanup", sha256s |-> retrieve_sha256s(DB)])
    /\ UNCHANGED <<now, dbvars, dir, last>>

\* delete_unreferenced_blobs: now = int(time.time()); os.listdir(data_dir)
cleanup_listdir(p) ==
    /\ pc[p] = "listdir"
    /\ Goto(p, "stat", [op |-> loc[p].op, sha256s |-> loc[p].sha256s,
                        now |-> now, todo |-> DOMAIN dir])
    /\ UNCHANGED <<now, dbvars, dir, last>>

\* the next file_name of the loop, in any order: os.stat(file_path), the
\* grace window and the membership test
cleanup_stat(p, file_name) ==
    /\ pc[p] = "stat"
    /\ file_name \in loc[p].todo
    /\ IF ~Exists(dir, file_name)
       THEN Return(p, [op |-> loc[p].op, err |-> "FileNotFoundError",
                       val |-> <<>>])
       ELSE IF InGraceWindow(dir[file_name].mtime, loc[p].now)
       THEN Goto(p, "stat", [loc[p] EXCEPT !.todo = @ \ {file_name}])
       ELSE IF InSha256s(file_name, loc[p].sha256s)
       THEN Goto(p, "stat", [loc[p] EXCEPT !.todo = @ \ {file_name}])
       ELSE Goto(p, "unlink", [op |-> loc[p].op, sha256s |-> loc[p].sha256s,
                               now |-> loc[p].now,
                               todo |-> loc[p].todo \ {file_name},
                               cur |-> file_name])
    /\ UNCHANGED <<now, dbvars, dir, last>>

\* os.unlink(file_path)
cleanup_unlink(p) ==
    /\ pc[p] = "unlink"
    /\ IF Exists(dir, loc[p].cur)
       THEN /\ dir' = os_unlink(dir, loc[p].cur)
            /\ Goto(p, "stat", [op |-> loc[p].op, sha256s |-> loc[p].sha256s,
                                now |-> loc[p].now, todo |-> loc[p].todo])
       ELSE /\ dir' = dir
            /\ Return(p, [op |-> loc[p].op, err |-> "FileNotFoundError",
                          val |-> <<>>])
    /\ UNCHANGED <<now, dbvars, last>>

\* the loop is over: delete_unreferenced_blobs and cleanup return
cleanup_return(p) ==
    /\ pc[p] = "stat"
    /\ loc[p].todo = {}
    /\ Return(p, [op |-> loc[p].op, err |-> "OK", val |-> <<>>])
    /\ UNCHANGED <<now, dbvars, dir, last>>

----------------------------------------------------------------------------
(* The Engine called by concurrent processes *)

UploadArgs ==
    ((ProjectNames \cup BadNames) \X {<<"1">>} \X {<<"f">>}
        \X Contents \X UploadAges)

DownloadArgs == ProjectNames \X {<<"1">>} \X {<<"f">>}

ClientStep(p) ==
    \/ \E a \in UploadArgs : upload_open(p, a[1], a[2], a[3], a[4], a[5])
    \/ upload_write(p)
    \/ upload_utime(p)
    \/ upload_replace(p)
    \/ upload_create_file(p)
    \/ \E a \in DownloadArgs :
          download_retrieve_file_sha256(p, a[1], a[2], a[3])
    \/ download_retrieve_blob(p)

Todo(p) == IF pc[p] = "stat" THEN loc[p].todo ELSE {}

CleanerStep(p) ==
    \/ cleanup_delete_obsolete_versions(p)
    \/ cleanup_retrieve_sha256s(p)
    \/ cleanup_listdir(p)
    \/ \E n \in Todo(p) : cleanup_stat(p, n)
    \/ cleanup_unlink(p)
    \/ cleanup_return(p)

Next ==
    \/ \E d \in TickSteps : now + d <= MaxTime /\ Tick(d)
    \/ \E p \in Clients : ClientStep(p)
    \/ \E p \in Cleaners : CleanerStep(p)

Spec == Init /\ [][Next]_vars

----------------------------------------------------------------------------
(* The Engine called by one caller at a time: a call starts when no other
   call is running *)

Alone(p) == \A q \in Procs \ {p} : pc[q] = "idle"

SeqUploadArgs ==
    ((ProjectNames \cup BadNames) \X VersionNames \X {<<"f">>}
        \X Contents \X UploadAges)

SeqDownloadArgs == ProjectNames \X VersionNames \X {<<"f">>}

SeqClientStep(p) ==
    \/ \E a \in SeqUploadArgs :
          Alone(p) /\ upload_open(p, a[1], a[2], a[3], a[4], a[5])
    \/ Alone(p) /\ upload_write(p)
    \/ Alone(p) /\ upload_utime(p)
    \/ Alone(p) /\ upload_replace(p)
    \/ Alone(p) /\ upload_create_file(p)
    \/ \E a \in SeqDownloadArgs :
          Alone(p) /\ download_retrieve_file_sha256(p, a[1], a[2], a[3])
    \/ Alone(p) /\ download_retrieve_blob(p)
    \/ \E pn \in ProjectNames, vn \in VersionNames, star \in BOOLEAN :
          Alone(p) /\ star_version(p, pn, vn, star)

SeqCleanerStep(p) ==
    \/ Alone(p) /\ cleanup_delete_obsolete_versions(p)
    \/ Alone(p) /\ cleanup_retrieve_sha256s(p)
    \/ Alone(p) /\ cleanup_listdir(p)
    \/ \E n \in Todo(p) : Alone(p) /\ cleanup_stat(p, n)
    \/ Alone(p) /\ cleanup_unlink(p)
    \/ Alone(p) /\ cleanup_return(p)

NextSeq ==
    \/ \E d \in TickSteps : now + d <= MaxTime /\ Tick(d)
    \/ \E p \in Clients : SeqClientStep(p)
    \/ \E p \in Cleaners : SeqCleanerStep(p)

SpecSeq == Init /\ [][NextSeq]_vars

\* validate_name(name) called on its own
CallValidateName(name) ==
    /\ last' = [op |-> "validate_name", err |-> validate_name(name),
                val |-> name]
    /\ UNCHANGED <<now, projects, versions, files, enginevars>>

\* Database.create_file(project_name, version_name, file_name, sha256, age)
CallCreateFile(project_name, version_name, file_name, sha256, age) ==
    LET timestamp == now - age
        r == create_file(DB, project_name, version_name, file_name, sha256,
                         timestamp) IN
    /\ \A v \in r.db.versions : v.id <= MaxId
    /\ SetDB(r.db)
    /\ last' = [op |-> "create_file", err |-> r.err,
                val |-> IF r.err = "OK" THEN <<timestamp>> ELSE <<>>]
    /\ UNCHANGED <<now, enginevars>>

\* Database.update_star(project_name, version_name, star)
CallUpdateStar(project_name, version_name, star) ==
    LET r == update_star(DB, project_name, version_name, star) IN
    /\ SetDB(r.db)
    /\ last' = [op |-> "update_star", err |-> r.err, val |-> <<>>]
    /\ UNCHANGED <<now, enginevars>>

\* Database.delete_obsolete_versions(age); val is the age and the number of
\* rows the DELETE statement removed
CallDeleteObsoleteVersions(age) ==
    LET db == delete_obsolete_versions(DB, now - age) IN
    /\ SetDB(db)
    /\ last' = [op |-> "delete_obsolete_versions", err |-> "OK",
                val |-> <<age, Cardinality(versions \ db.versions)>>]
    /\ UNCHANGED <<now, enginevars>>

\* the arguments of the direct calls: every combination of the valid
\* names, and an invalid name at each position
CreateFileArgs ==
    (ProjectNames \X VersionNames \X FileNames \X Sha256s \X Ages)
    \cup {<<b, <<"1">>, <<"f">>, sha256_sum(1), 0>> : b \in BadNames}
    \cup {<<<<"p">>, b, <<"f">>, sha256_sum(1), 0>> : b \in BadNames}
    \cup {<<<<"p">>, <<"1">>, b, sha256_sum(1), 0>> : b \in BadNames}

UpdateStarArgs ==
    (ProjectNames \X VersionNames \X StarValues)
    \cup {<<b, <<"1">>, PyTrue>> : b \in BadNames}
    \cup {<<<<"p">>, b, PyTrue>> : b \in BadNames}

NextDb ==
    \/ \E d \in TickSteps : now + d <= MaxTimeDb /\ Tick(d)
    \/ \E a \in CreateFileArgs : CallCreateFile(a[1], a[2], a[3], a[4], a[5])
    \/ \E a \in UpdateStarArgs : CallUpdateStar(a[1], a[2], a[3])
    \/ \E age \in Ages : CallDeleteObsoleteVersions(age)

SpecDb == Init /\ [][NextDb]_vars

NextName == \E name \in SeqsUpTo(Alphabet, MaxNameLen) : CallValidateName(name)

SpecName == Init /\ [][NextName]_vars

----------------------------------------------------------------------------
(* The listings of the Database *)

CallRetrieveProjects ==
    LET r == retrieve_projects(DB) IN
    /\ \E val \in r.vals :
          last' = [op |-> "retrieve_projects", err |-> r.err, val |-> val]
    /\ UNCHANGED <<now, dbvars, enginevars>>

CallRetrieveVersions(project_name) ==
    LET r == retrieve_versions(DB, project_name) IN
    /\ \E val \in r.vals :
          last' = [op |-> "retrieve_versions", err |-> r.err, val |-> val]
    /\ UNCHANGED <<now, dbvars, enginevars>>

CallRetrieveFiles(project_name, version_name) ==
    LET r == retrieve_files(DB, project_name, version_name) IN
    /\ \E val \in r.vals :
          last' = [op |-> "retrieve_files", err |-> r.err, val |-> val]
    /\ UNCHANGED <<now, dbvars, enginevars>>

\* every project with one version and one file, and one project with
\* every version and every file
ListCreateArgs ==
    {<<a[1], a[2], a[3], sha256_sum(1), 0>> :
        a \in (ListProjectNames \X {<<"1">>} \X {<<"f">>})
              \cup ({<<"p">>} \X VersionNames \X FileNames)}

NextList ==
    \/ \E d \in TickSteps : now + d <= MaxTimeDb /\ Tick(d)
    \/ \E a \in ListCreateArgs : CallCreateFile(a[1], a[2], a[3], a[4], a[5])
    \/ CallDeleteObsoleteVersions(0)
    \/ CallRetrieveProjects
    \/ \E pn \in ListProjectNames \cup BadNames : CallRetrieveVersions(pn)
    \/ \E pn \in ListProjectNames \cup BadNames, vn \in VersionNames :
          CallRetrieveFiles(pn, vn)

SpecList == Init /\ [][NextList]_vars

----------------------------------------------------------------------------
(* format_expiry called on its own, once in a run *)

ExpiryInputs == (-5)..MaxExpiry

CallFormatExpiry(expiry) ==
    /\ last' = [op |-> "format_expiry", err |-> "OK",
                val |-> <<expiry, format_expiry(expiry)>>]
    /\ UNCHANGED <<now, dbvars, enginevars>>

NextExpiry ==
    /\ last = NoCall
    /\ \E expiry \in ExpiryInputs : CallFormatExpiry(expiry)

SpecExpiry == Init /\ [][NextExpiry]_vars

----------------------------------------------------------------------------
(* The Datastore called on its own *)

\* Datastore.create_blob(stream, age): sha256_sum(stream), then
\* open(temp_file_path, 'xb'); the steps that follow are those of upload
create_blob_open(p, content, age) ==
    LET sha256 == sha256_sum(content)
        temp == TempName(sha256, p) IN
    /\ pc[p] = "idle"
    /\ ~Exists(dir, temp)
    /\ dir' = WithFile(dir, temp,
                       [content |-> content, complete |-> FALSE, mtime |-> now])
    /\ Goto(p, "write", [op |-> "create_blob", content |-> content,
                         age |-> age, sha256 |-> sha256])
    /\ UNCHANGED <<now, dbvars, last>>

\* Datastore.retrieve_blob(sha256): open(file_path, 'rb') or the exception
CallRetrieveBlob(sha256) ==
    LET r == retrieve_blob(dir, sha256) IN
    /\ last' = [op |-> "retrieve_blob", err |-> r.err, val |-> r.val]
    /\ UNCHANGED <<now, dbvars, enginevars>>

\* Datastore.delete_unreferenced_blobs(sha256s) called with a list of
\* hashes; the steps that follow are those of cleanup
call_delete_unreferenced_blobs(p, sha256s) ==
    /\ pc[p] = "idle"
    /\ Goto(p, "listdir", [op |-> "delete_unreferenced_blobs",
                           sha256s |-> sha256s])
    /\ UNCHANGED <<now, dbvars, dir, last>>

BlobClientStep(p) ==
    \/ \E content \in Contents, age \in BlobAges :
          create_blob_open(p, content, age)
    \/ upload_write(p)
    \/ upload_utime(p)
    \/ upload_replace(p)

\* concurrent create_blob calls and readers, no deletion
NextBlob ==
    \/ \E d \in TickSteps : now + d <= MaxTime /\ Tick(d)
    \/ \E p \in BlobClients : BlobClientStep(p)
    \/ \E sha256 \in Sha256s : CallRetrieveBlob(sha256)

SpecBlob == Init /\ [][NextBlob]_vars

SeqBlobClientStep(p) ==
    \/ \E content \in Contents, age \in BlobAges :
          Alone(p) /\ create_blob_open(p, content, age)
    \/ Alone(p) /\ upload_write(p)
    \/ Alone(p) /\ upload_utime(p)
    \/ Alone(p) /\ upload_replace(p)

SeqBlobCleanerStep(p) ==
    \/ \E sha256s \in SUBSET Sha256s :
          Alone(p) /\ call_delete_unreferenced_blobs(p, sha256s)
    \/ Alone(p) /\ cleanup_listdir(p)
    \/ \E n \in Todo(p) : Alone(p) /\ cleanup_stat(p, n)
    \/ Alone(p) /\ cleanup_unlink(p)
    \/ Alone(p) /\ cleanup_return(p)

\* create_blob and delete_unreferenced_blobs, one call at a time
NextBlobSeq ==
    \/ \E d \in TickSteps : now + d <= MaxTime /\ Tick(d)
    \/ \E p \in Clients : SeqBlobClientStep(p)
    \/ \E p \in Cleaners : SeqBlobCleanerStep(p)

SpecBlobSeq == Init /\ [][NextBlobSeq]_vars

----------------------------------------------------------------------------
(* The Database methods with their connection: val is the list of what the
   call did to the connection and the storage, in order *)

ValidationErrors == {"Invalid name", "Invalid SHA-256 hash",
                     "Invalid star state"}

\* Database.open: sqlite3.connect, then the three PRAGMA statements
open == <<"connect", "PRAGMA", "PRAGMA", "PRAGMA">>

\* Database.close: self.connection.close()
close == <<"close">>

\* the body of a decorated method that ends with err: its validators when
\* it has some, its statements unless a validator raised, and the raise
method_body(validates, err) ==
    (IF validates THEN <<"validate">> ELSE <<>>)
    \o (IF err \in ValidationErrors THEN <<>> ELSE <<"execute">>)
    \o (IF err # "OK" THEN <<"raise">> ELSE <<>>)

\* database_context_manager: database.open(), yield, database.close(); an
\* exception of the body is thrown into the generator at the yield, which
\* has no try/finally, and leaves it there
database_context_manager(body) ==
    open \o body
    \o (IF \E i \in 1..Len(body) : body[i] = "raise" THEN <<>> ELSE close)

\* a decorated method called: the tables afterwards and the record of the
\* call
Decorated(op, validates, err, db) ==
    /\ \A v \in db.versions : v.id <= MaxId
    /\ SetDB(db)
    /\ last' = [op |-> op, err |-> err,
                val |-> database_context_manager(method_body(validates, err))]
    /\ UNCHANGED <<now, enginevars>>

ConnCreateFile(project_name, version_name, file_name, sha256) ==
    LET r == create_file(DB, project_name, version_name, file_name, sha256,
                         now) IN
    Decorated("create_file", TRUE, r.err, r.db)

ConnRetrieveFileSha256(project_name, version_name, file_name) ==
    LET r == retrieve_file_sha256(DB, project_name, version_name, file_name)
    IN Decorated("retrieve_file_sha256", TRUE, r.err, DB)

ConnRetrieveProjects ==
    Decorated("retrieve_projects", FALSE, retrieve_projects(DB).err, DB)

ConnRetrieveVersions(project_name) ==
    Decorated("retrieve_versions", TRUE,
              retrieve_versions(DB, project_name).err, DB)

ConnRetrieveFiles(project_name, version_name) ==
    Decorated("retrieve_files", TRUE,
              retrieve_files(DB, project_name, version_name).err, DB)

ConnRetrieveSha256s == Decorated("retrieve_sha256s", FALSE, "OK", DB)

ConnUpdateStar(project_name, version_name, star) ==
    LET r == update_star(DB, project_name, version_name, star) IN
    Decorated("update_star", TRUE, r.err, r.db)

ConnDeleteObsoleteVersions(age) ==
    Decorated("delete_obsolete_versions", FALSE, "OK",
              delete_obsolete_versions(DB, now - age))

BadSha256s == {[hexlen |-> HexLen - 1, id |-> 1, tail |-> <<>>]}

ConnNames == ProjectNames \cup BadNames

NextConn ==
    \/ \E d \in TickSteps : now + d <= MaxTimeDb /\ Tick(d)
    \/ \E pn \in ConnNames, vn \in VersionNames, fn \in FileNames,
          sha256 \in Sha256s \cup BadSha256s :
          ConnCreateFile(pn, vn, fn, sha256)
    \/ \E pn \in ConnNames, vn \in VersionNames, fn \in FileNames :
          ConnRetrieveFileSha256(pn, vn, fn)
    \/ ConnRetrieveProjects
    \/ \E pn \in ConnNames : ConnRetrieveVersions(pn)
    \/ \E pn \in ConnNames, vn \in VersionNames : ConnRetrieveFiles(pn, vn)
    \/ ConnRetrieveSha256s
    \/ \E pn \in ConnNames, vn \in VersionNames, star \in StarValues :
          ConnUpdateStar(pn, vn, star)
    \/ \E age \in Ages : ConnDeleteObsoleteVersions(age)

SpecConn == Init /\ [][NextConn]_vars

----------------------------------------------------------------------------
(* webapp.py: the requests served one at a time *)

\* Engine.upload run without interruption, age = 0
upload(db, d, project_name, version_name, file_name, content, t) ==
    LET sha256 == sha256_sum(content)
        temp == TempName(sha256, "web")
        written == WithFile(d, temp, [content |-> content, complete |-> TRUE,
                                      mtime |-> t])
        r == create_file(db, project_name, version_name, file_name, sha256, t)
    IN [err |-> r.err, db |-> r.db,
        dir |-> os_replace(written, temp, BlobName(sha256))]

\* BaseApp.route: adapter.match() raises werkzeug.exceptions.NotFound when
\* no rule matches the path; that exception gives 404, any other exception
\* 500, and no exception the response of the endpoint
route(exception, status) ==
    IF exception = "OK" THEN status
    ELSE IF exception = "werkzeug.exceptions.NotFound" THEN 404
    ELSE 500

\* a request served: the response status, and the tables and the
\* directory afterwards
Served(endpoint, exception, status, db, d) ==
    /\ \A v \in db.versions : v.id <= MaxId
    /\ SetDB(db)
    /\ dir' = d
    /\ last' = [op |-> endpoint, err |-> exception,
                val |-> <<route(exception, status)>>]
    /\ UNCHANGED <<now, pc, loc, ret>>

\* a path that no rule of the URL map matches
NoRule == Served("no_rule", "werkzeug.exceptions.NotFound", 0, DB, dir)

\* GET /: response_template, 200
App_index == Served("index", list_projects(DB).err, 200, DB, dir)

\* GET /project/<project_name>
App_project(project_name) ==
    Served("project", list_versions(DB, project_name, now).err, 200, DB, dir)

\* GET /version/<project_name>/<version_name>: Engine.list_files
App_version(project_name, version_name) ==
    Served("version", retrieve_files(DB, project_name, version_name).err,
           200, DB, dir)

\* GET /download/<project_name>/<version_name>/<file_name>
App_download(project_name, version_name, file_name) ==
    Served("download",
           download(DB, dir, project_name, version_name, file_name).err,
           200, DB, dir)

\* GET /admin/star/<project_name>/<version_name>: response_redirect, 302
App_star(project_name, version_name) ==
    LET r == update_star(DB, project_name, version_name, PyTrue) IN
    Served("star", r.err, 302, r.db, dir)

\* GET /admin/unstar/<project_name>/<version_name>
App_unstar(project_name, version_name) ==
    LET r == update_star(DB, project_name, version_name, PyFalse) IN
    Served("unstar", r.err, 302, r.db, dir)

\* POST /upload
App_upload(project_name, version_name, file_name, content) ==
    LET r == upload(DB, dir, project_name, version_name, file_name, content,
                    now) IN
    Served("upload", r.err, 302, r.db, r.dir)

WebNames == ProjectNames \cup BadNames

NextWeb ==
    \/ NoRule
    \/ App_index
    \/ \E pn \in WebNames : App_project(pn)
    \/ \E pn \in WebNames, vn \in VersionNames : App_version(pn, vn)
    \/ \E pn \in WebNames, vn \in VersionNames, fn \in FileNames :
          App_download(pn, vn, fn)
    \/ \E pn \in WebNames, vn \in VersionNames : App_star(pn, vn)
    \/ \E pn \in WebNames, vn \in VersionNames : App_unstar(pn, vn)
    \/ \E pn \in WebNames, vn \in VersionNames, fn \in FileNames,
          content \in Contents : App_upload(pn, vn, fn, content)

SpecWeb == Init /\ [][NextWeb]_vars

----------------------------------------------------------------------------
(* Database.create_file called by concurrent processes, each with its own
   Database object and connection *)

\* as WriteLocked, with no lock taken by a write transaction
WriteLockedNever == FALSE

\* another connection is inside a write transaction: SQLite has one
\* writer at a time, and the busy handler makes the others wait
WriteLocked == \E q \in Procs : pc[q] = "insert_file"

\* create_file: the validators, the timestamp and BEGIN, which takes no
\* lock
create_file_begin(p, project_name, version_name, file_name, sha256) ==
    LET err == IF validate_name(project_name) # "OK"
               THEN validate_name(project_name)
               ELSE IF validate_name(version_name) # "OK"
               THEN validate_name(version_name)
               ELSE IF validate_name(file_name) # "OK"
               THEN validate_name(file_name)
               ELSE validate_sha256(sha256)
        call == [op |-> "create_file", project_name |-> project_name,
                 version_name |-> version_name, file_name |-> file_name,
                 sha256 |-> sha256, timestamp |-> now] IN
    /\ pc[p] = "idle"
    /\ IF err # "OK"
       THEN Return(p, [op |-> "create_file", err |-> err, val |-> call])
       ELSE Goto(p, "begin", call)
    /\ UNCHANGED <<now, dbvars, dir, last>>

\* create_file: the first INSERT OR IGNORE starts the write transaction
\* on the tables as they are committed, once no other connection writes;
\* then the two SELECT and the second INSERT OR IGNORE, seen by this
\* connection only
create_file_upsert(p) ==
    LET P1 == InsertOrIgnoreProject(projects, loc[p].project_name)
        project_id == (CHOOSE r \in P1 : r.name = loc[p].project_name).id
        V1 == InsertOrIgnoreVersion(versions, project_id,
                                    loc[p].version_name, loc[p].timestamp)
        version_id == (CHOOSE r \in V1 :
                          /\ r.project_id = project_id
                          /\ r.name = loc[p].version_name).id IN
    /\ pc[p] = "begin"
    /\ ~WriteLocked
    /\ \A v \in V1 : v.id <= MaxId
    /\ Goto(p, "insert_file",
            [call |-> loc[p], version_id |-> version_id,
             db |-> [projects |-> P1, versions |-> V1, files |-> files]])
    /\ UNCHANGED <<now, dbvars, dir, last>>

\* create_file: INSERT INTO files, then COMMIT, or ROLLBACK and the
\* exception on sqlite3.IntegrityError
create_file_insert(p) ==
    LET call == loc[p].call
        ins == InsertFile(loc[p].db.files, loc[p].version_id,
                          call.file_name, call.sha256) IN
    /\ pc[p] = "insert_file"
    /\ IF ins.ok
       THEN /\ SetDB([loc[p].db EXCEPT !.files = ins.rows])
            /\ Return(p, [op |-> "create_file", err |-> "OK", val |-> call])
       ELSE /\ UNCHANGED dbvars
            /\ Return(p, [op |-> "create_file",
                          err |-> "Unable to create file", val |-> call])
    /\ UNCHANGED <<now, dir, last>>

CreateArgs ==
    (ProjectNames \cup BadNames) \X VersionNames \X {<<"f">>} \X Sha256s

NextCreate ==
    \/ \E d \in TickSteps : now + d <= MaxTimeDb /\ Tick(d)
    \/ \E p \in BlobClients, a \in CreateArgs :
          create_file_begin(p, a[1], a[2], a[3], a[4])
    \/ \E p \in BlobClients : create_file_upsert(p)
    \/ \E p \in BlobClients : create_file_insert(p)

SpecCreate == Init /\ [][NextCreate]_vars

----------------------------------------------------------------------------
(* The Engine called by concurrent processes, with time that keeps
   advancing and a cleanup that is invoked again and again: start.py
   --cleanup run periodically, each call running to its return or to its
   exception. The clients are free to stop at any point. *)

LiveUploadArgs ==
    ((ProjectNames \cup BadNames) \X {<<"1">>} \X {<<"f">>}
        \X Contents \X UploadAges)

LiveClientStep(p) ==
    \/ \E a \in LiveUploadArgs :
          upload_open(p, a[1], a[2], a[3], a[4], a[5])
    \/ upload_write(p)
    \/ upload_utime(p)
    \/ upload_replace(p)
    \/ upload_create_file(p)
    \/ \E pn \in ProjectNames, star \in BOOLEAN :
          star_version(p, pn, <<"1">>, star)

LiveTick == \E d \in TickSteps : now + d <= MaxTime /\ Tick(d)

NextLive ==
    \/ LiveTick
    \/ \E p \in Clients : LiveClientStep(p)
    \/ \E p \in Cleaners : CleanerStep(p)

SpecLive ==
    /\ Init /\ [][NextLive]_vars
    /\ WF_vars(LiveTick)
    /\ \A p \in Cleaners : WF_vars(CleanerStep(p))

----------------------------------------------------------------------------
(* The claims *)

\* C1: in a sequential run, when upload(P, V, F, b) returns without an
\* exception, download(P, V, F) run next returns a stream of the complete
\* content b.
C1_RoundTrip ==
    [][\A p \in Clients :
          (/\ pc[p] = "create_file"
           /\ ret'[p].op = "upload"
           /\ ret'[p].err = "OK")
          => download(DB', dir', loc[p].project_name, loc[p].version_name,
                      loc[p].file_name)
             = [err |-> "OK", val |-> <<loc[p].content, TRUE>>]]_vars

\* C1 witness: with both blobs in the directory, a download has returned
\* the content 2
C1_Witness ==
    /\ \A c \in Contents : Exists(dir, BlobName(sha256_sum(c)))
    /\ \E p \in Clients : /\ ret[p].op = "download"
                           /\ ret[p].err = "OK"
                           /\ ret[p].val = <<2, TRUE>>

\* C2: whenever create_file commits a file row, the blob its sha256 names
\* is in the directory.
C2_BlobExistsAtCommit ==
    [][\A f \in files' \ files : Exists(dir', BlobName(f.sha256))]_vars

\* C3: no step removes a blob that was written less than 60 s ago (uploads
\* here write with age 0, so mtime is never later than the rename).
C3_FreshBlobKept ==
    [][\A n \in DOMAIN dir :
          (n.suffix = "" /\ dir[n].mtime > now - GraceWindow)
          => n \in DOMAIN dir']_vars

\* the call process p is making, or starts with this step
CallOf(p) == IF pc[p] = "idle" THEN loc'[p] ELSE loc[p]

\* C4: no step of an upload whose project name is invalid changes the
\* tables or the directory, and the call ends with 'Invalid name'.
C4_RejectedUploadTouchesNothing ==
    [][\A p \in Clients :
          (/\ pc'[p] # pc[p]
           /\ CallOf(p).op = "upload"
           /\ validate_name(CallOf(p).project_name) # "OK")
          => (/\ UNCHANGED <<dir, dbvars>>
              /\ pc'[p] = "idle" => ret'[p].err = "Invalid name")]_vars

\* C11: when Engine.cleanup() returns, having run with no other call in
\* progress, every file of the directory has an mtime inside the grace
\* window of that cleanup or a name that retrieve_sha256s() returns.
C11_CleanupLeavesFreshOrLive ==
    [][\A p \in Cleaners :
          (/\ pc[p] = "stat"
           /\ ret'[p].op = "cleanup"
           /\ ret'[p].err = "OK")
          => \A n \in DOMAIN dir' :
                \/ dir'[n].mtime > loc[p].now - GraceWindow
                \/ InSha256s(n, retrieve_sha256s(DB'))]_vars

\* C11 witness: a cleanup has returned after an upload that failed and
\* left a blob; that blob is gone, and a blob older than the grace window
\* that a file row names is still there
C11_Witness ==
    /\ \E p \in Cleaners : ret[p].op = "cleanup" /\ ret[p].err = "OK"
    /\ \E p \in Clients :
          /\ ret[p].op = "upload"
          /\ ret[p].err = "Invalid name"
          /\ ~Exists(dir, BlobName(sha256_sum(ret[p].val[4])))
    /\ \E n \in DOMAIN dir :
          /\ dir[n].mtime <= now - GraceWindow
          /\ InSha256s(n, retrieve_sha256s(DB))

\* file_name in live, for a list of hashes
NameIn(file_name, live) == file_name.suffix = "" /\ file_name.sha \in live

\* C12: delete_unreferenced_blobs(live) run alone unlinks only entries with
\* mtime <= now - 60 whose name is not in live, changes no entry it keeps,
\* and when it returns no entry with mtime <= now - 60 and a name not in
\* live is left (now is the time the call read).
C12_UnlinksExactlyOldUnreferenced ==
    [][\A p \in Cleaners :
          (loc[p].op = "delete_unreferenced_blobs"
           /\ pc[p] \in {"stat", "unlink"})
          => /\ \A n \in DOMAIN dir \ DOMAIN dir' :
                   /\ dir[n].mtime <= loc[p].now - GraceWindow
                   /\ ~NameIn(n, loc[p].sha256s)
             /\ \A n \in DOMAIN dir' : n \in DOMAIN dir /\ dir'[n] = dir[n]
             /\ pc'[p] = "idle"
                => /\ ret'[p].err = "OK"
                   /\ \A n \in DOMAIN dir' :
                         \/ dir'[n].mtime > loc[p].now - GraceWindow
                         \/ NameIn(n, loc[p].sha256s)]_vars

\* C12 witness: delete_unreferenced_blobs has returned; the blob the last
\* create_blob made is gone, and a blob older than the grace window is
\* still there
C12_Witness ==
    /\ \E p \in Cleaners : /\ ret[p].op = "delete_unreferenced_blobs"
                            /\ ret[p].err = "OK"
    /\ \E p \in Clients : /\ ret[p].op = "create_blob"
                           /\ ret[p].err = "OK"
                           /\ ~Exists(dir, BlobName(ret[p].val))
    /\ \E n \in DOMAIN dir : dir[n].mtime <= now - GraceWindow

\* C13: with concurrent create_blob calls and no deletion, a file under a
\* canonical name is complete and has that hash; after a create_blob has
\* returned a hash, retrieve_blob of it succeeds with those bytes; and once
\* retrieve_blob of a hash succeeds it keeps succeeding with the same bytes.
C13_CanonicalAbsentOrComplete ==
    /\ [](\A n \in DOMAIN dir :
             n.suffix = "" => dir[n].complete
                              /\ sha256_sum(dir[n].content) = n.sha)
    /\ [](\A p \in BlobClients :
             (ret[p].op = "create_blob" /\ ret[p].err = "OK")
             => /\ retrieve_blob(dir, ret[p].val).err = "OK"
                /\ retrieve_blob(dir, ret[p].val).val[2]
                /\ sha256_sum(retrieve_blob(dir, ret[p].val).val[1])
                   = ret[p].val)
    /\ [][\A sha256 \in Sha256s :
             retrieve_blob(dir, sha256).err = "OK"
             => retrieve_blob(dir', sha256) = retrieve_blob(dir, sha256)]_vars

\* C13 witness: one create_blob has returned, another of the same bytes
\* has written its temp file and not yet renamed it, and retrieve_blob of
\* the hash has read the complete bytes
C13_Witness ==
    \E p, q \in BlobClients :
       /\ ret[p].op = "create_blob" /\ ret[p].err = "OK"
       /\ pc[q] = "replace" /\ loc[q].sha256 = ret[p].val
       /\ Exists(dir, TempName(loc[q].sha256, q))
       /\ last.op = "retrieve_blob" /\ last.err = "OK"
       /\ last.val = <<loc[q].content, TRUE>>

\* no file row without its version row, no version row without its project
NoDanglingRows(db) ==
    /\ \A f \in db.files : \E v \in db.versions : v.id = f.version_id
    /\ \A v \in db.versions : \E p \in db.projects : p.id = v.project_id

C15_NamesUnique ==
    /\ \A p, q \in projects : p.name = q.name => p = q
    /\ \A v, w \in versions :
          (v.project_id = w.project_id /\ v.name = w.name) => v = w
    /\ \A f, g \in files :
          (f.version_id = g.version_id /\ f.name = g.name) => f = g

\* C15 witness: after a successful create_file, one project holds two
\* versions that each hold the same two file names
C15_Witness ==
    /\ last.op = "create_file" /\ last.err = "OK"
    /\ Cardinality(projects) = 1
    /\ Cardinality(versions) = 2
    /\ Cardinality(files) = 4

\* C16: for an existing version and a boolean x, update_star(P, V, x) and
\* then update_star(P, V, x) again both succeed, the second changes
\* nothing, and the first changes nothing but that version's star.
C16_UpdateStarIdempotent ==
    \A a \in ProjectNames \X VersionNames \X {PyTrue, PyFalse} :
       VersionRows(DB, a[1], a[2]) # {}
       => LET once == update_star(DB, a[1], a[2], a[3])
              twice == update_star(once.db, a[1], a[2], a[3])
              row == CHOOSE v \in VersionRows(DB, a[1], a[2]) : TRUE
          IN /\ once.err = "OK" /\ twice.err = "OK"
             /\ twice.db = once.db
             /\ once.db.projects = projects /\ once.db.files = files
             /\ once.db.versions
                = (versions \ {row})
                  \cup {[row EXCEPT !.star = (a[3] = PyTrue)]}

\* C16 witness: update_star has succeeded, and of two versions one is
\* starred and the other is not
C16_Witness ==
    /\ last.op = "update_star" /\ last.err = "OK"
    /\ \E v, w \in versions : v.star /\ ~w.star
    /\ files # {}

\* C17: update_star with a star that is not True or False fails with
\* 'Invalid star state' whether or not the version exists; with a boolean
\* star and no such version it fails with 'Version not found'; both leave
\* the tables unchanged.
C17_UpdateStarRejects ==
    \A a \in ProjectNames \X VersionNames \X StarValues :
       LET r == update_star(DB, a[1], a[2], a[3]) IN
       /\ a[3] \notin {PyTrue, PyFalse}
          => r = [err |-> "Invalid star state", db |-> DB]
       /\ (a[3] \in {PyTrue, PyFalse} /\ VersionRows(DB, a[1], a[2]) = {})
          => r = [err |-> "Version not found", db |-> DB]

\* C17 witness: update_star has failed with 'Invalid star state' while
\* one of the two version names has a row and the other has none
C17_Witness ==
    /\ last.op = "update_star" /\ last.err = "Invalid star state"
    /\ Cardinality(versions) = 1

\* the names of a list of rows
NamesOf(rows) == {rows[i].name : i \in 1..Len(rows)}

\* C18: retrieve_projects returns every project once, strictly ascending
\* by name; retrieve_versions(P) returns every version of P once,
\* non-increasing by timestamp; retrieve_files(P, V) returns every file of
\* V once, strictly ascending by name.
C18_ListingsOrdered ==
    /\ \A r \in retrieve_projects(DB).vals :
          /\ Len(r) = Cardinality(projects)
          /\ NamesOf(r) = {p.name : p \in projects}
          /\ \A i \in 1..(Len(r) - 1) : NameLess(r[i].name, r[i + 1].name)
    /\ \A p \in projects :
          /\ retrieve_versions(DB, p.name).err = "OK"
          /\ \A r \in retrieve_versions(DB, p.name).vals :
                /\ Len(r) = Cardinality({v \in versions : v.project_id = p.id})
                /\ NamesOf(r)
                   = {v.name : v \in {w \in versions : w.project_id = p.id}}
                /\ \A i \in 1..(Len(r) - 1) :
                      r[i].timestamp >= r[i + 1].timestamp
    /\ \A p \in projects, v \in versions :
          v.project_id = p.id
          => /\ retrieve_files(DB, p.name, v.name).err = "OK"
             /\ \A r \in retrieve_files(DB, p.name, v.name).vals :
                   /\ Len(r) = Cardinality({f \in files : f.version_id = v.id})
                   /\ NamesOf(r)
                      = {f.name : f \in {g \in files : g.version_id = v.id}}
                   /\ \A i \in 1..(Len(r) - 1) :
                         NameLess(r[i].name, r[i + 1].name)

\* C18 witness: with three projects, retrieve_versions has returned two
\* versions, the one created later first
C18_Witness ==
    /\ Cardinality(projects) = 3
    /\ last.op = "retrieve_versions" /\ last.err = "OK"
    /\ Len(last.val) = 2
    /\ last.val[1].timestamp > last.val[2].timestamp
    /\ \E v \in versions : Cardinality({f \in files : f.version_id = v.id}) = 2

\* C19: format_expiry(s) is 'expired' for s <= 0; for s > 0 it is
\* 'expires in N unit' with N = s seconds if s < 60, else
\* m = (s + 30) // 60 minutes if m < 60, else h = (m + 30) // 60 hours if
\* h < 24, else d = (h + 12) // 24 days; N >= 1, and the unit takes an 's'
\* exactly when N # 1.
C19_FormatExpiryCascade ==
    last.op = "format_expiry"
    => LET s == last.val[1]
           m == (s + 30) \div 60
           h == (m + 30) \div 60
           d == (h + 12) \div 24
           N == IF s < 60 THEN s ELSE IF m < 60 THEN m
                ELSE IF h < 24 THEN h ELSE d
           unit == IF s < 60 THEN "second" ELSE IF m < 60 THEN "minute"
                   ELSE IF h < 24 THEN "hour" ELSE "day"
       IN IF s <= 0 THEN last.val[2] = <<"expired">>
          ELSE /\ N >= 1
               /\ last.val[2] = <<"expires in ", str(N), " ", unit,
                                  IF N = 1 THEN "" ELSE "s">>

\* C19 witness: format_expiry of one day and four hours is
\* 'expires in 1 day'
C19_Witness ==
    /\ last.op = "format_expiry"
    /\ last.val[1] = 100800
    /\ last.val[2] = <<"expires in ", <<"1">>, " ", "day", "">>

\* an upload of process p has failed in create_file, and no client call
\* has started since
UploadFailed(p) ==
    /\ ret[p].op = "upload"
    /\ ret[p].err \in {"Invalid name", "Unable to create file"}

\* the step is the failure of the upload of p in create_file
UploadFails(p) ==
    pc[p] = "create_file" /\ pc'[p] = "idle" /\ ret'[p].err # "OK"

\* the step is the return of a cleanup of g that ran after the upload of p
\* had failed, and no file row names the blob of that upload
CleanupReturnsOnOrphan(g, p) ==
    /\ pc[g] = "stat" /\ ret'[g].op = "cleanup" /\ ret'[g].err = "OK"
    /\ UploadFailed(p)
    /\ sha256_sum(ret[p].val[4]) \notin retrieve_sha256s(DB')

NotObsolete(v) == v.star \/ v.timestamp > now - ObsoleteAge

\* C6: every file whose upload has returned, of a version that is not
\* obsolete, can be downloaded: a download started now succeeds.
C6_UploadedStaysDownloadable ==
    \A a \in DownloadArgs :
       (/\ FileRows(DB, a[1], a[2], a[3]) # {}
        /\ \A v \in VersionRows(DB, a[1], a[2]) : NotObsolete(v))
       => download(DB, dir, a[1], a[2], a[3]).err = "OK"

\* a Name: non-empty, every character in [0-9a-zA-Z_.-], not "." or ".."
IsName(s) ==
    /\ Len(s) >= 1
    /\ \A i \in 1..Len(s) : s[i] \in NameCharClass
    /\ s \notin {<<".">>, <<".", ".">>}

\* C5: validate_name accepts exactly the Names: it rejects the empty
\* string, ".", ".." and every string with a character outside the
\* alphabet, a trailing newline included.
C5_ValidateNameExact ==
    last.op = "validate_name" => (last.err = "OK" <=> IsName(last.val))

\* the files rows of a versions row
FilesOf(F, v) == {f \in F : f.version_id = v.id}

\* C7: in every reachable state, create_file on an existing (project,
\* version, file), with any sha256 and age, fails with 'Unable to create
\* file' and leaves the three tables as they were.
C7_DuplicateFileRejected ==
    \A a \in CreateFileArgs :
       FileRows(DB, a[1], a[2], a[3]) # {}
       => LET r == create_file(DB, a[1], a[2], a[3], a[4], now - a[5]) IN
          /\ r.err = "Unable to create file"
          /\ r.db = DB

\* C7 witness: a duplicate create_file was refused while files exist
C7_Witness ==
    /\ last.op = "create_file"
    /\ last.err = "Unable to create file"
    /\ files # {}

\* C8: delete_obsolete_versions(age) removes exactly the versions with
\* star = false and timestamp <= now - age, and the files of those versions;
\* the other versions, their files and the projects are unchanged.
C8_DeleteObsoleteExact ==
    [][last'.op = "delete_obsolete_versions" =>
          \A age \in Ages :
             CallDeleteObsoleteVersions(age)
             => (/\ versions' = {v \in versions :
                                    v.star \/ v.timestamp > now - age}
                 /\ files' = {f \in files : \E v \in versions' :
                                                 f.version_id = v.id}
                 /\ projects' = projects)]_vars

\* C8 witness: a delete removed a row and kept both a starred version that
\* is old enough and its files
C8_Witness ==
    /\ last.op = "delete_obsolete_versions"
    /\ last.val[2] >= 1
    /\ \E v \in versions : /\ v.star
                            /\ v.timestamp <= now - last.val[1]
                            /\ FilesOf(files, v) # {}

\* C9: a starred version is exempt: no step removes a version whose star is
\* set, nor any of its files, whatever its age.
C9_StarExempts ==
    [][\A v \in versions :
          v.star => (/\ \E w \in versions' :
                           /\ w.id = v.id
                           /\ w.project_id = v.project_id
                           /\ w.name = v.name
                      /\ FilesOf(files, v) \subseteq files')]_vars

\* C9 witness: delete_obsolete_versions(0) has run and a starred version
\* created 60 s in the past is still there with two files
C9_Witness ==
    /\ last.op = "delete_obsolete_versions"
    /\ last.val[1] = 0
    /\ \E v \in versions : /\ v.star
                            /\ v.timestamp = now - 60
                            /\ Cardinality(FilesOf(files, v)) = 2

\* C10: the timestamp of a version never changes while the version exists:
\* neither create_file on the existing (project, version) nor update_star
\* alters it.
C10_TimestampFixed ==
    [][\A v \in versions, w \in versions' :
          (w.project_id = v.project_id /\ w.name = v.name)
          => w.timestamp = v.timestamp]_vars

\* C10 witness: create_file has added a second file to a version whose
\* timestamp differs from the timestamp this call computed
C10_Witness ==
    /\ last.op = "create_file"
    /\ last.err = "OK"
    /\ Cardinality(versions) = 1
    /\ \E v \in versions : /\ Cardinality(FilesOf(files, v)) = 2
                            /\ v.timestamp # last.val[1]


\* the step is the return of the create_blob call of p
CreateBlobReturns(p) ==
    pc[p] = "replace" /\ loc[p].op = "create_blob" /\ pc'[p] = "idle"

\* C21: with concurrent create_blob calls and no deletion, a create_blob
\* of bytes b returns sha256_sum(b) and leaves under that name a complete
\* entry holding b (the same bytes as an entry that was there before), its
\* temp file gone and no temp file added; the entry of any other bytes has
\* another name and is left as it was; when no call is in progress the
\* directory holds no temp file.
C21_CreateBlobIdempotent ==
    /\ [][\A p \in BlobClients :
             CreateBlobReturns(p)
             => LET sha256 == ret'[p].val
                    name == BlobName(sha256) IN
                /\ ret'[p].err = "OK"
                /\ sha256 = sha256_sum(loc[p].content)
                /\ Exists(dir', name)
                /\ dir'[name].content = loc[p].content
                /\ dir'[name].complete
                /\ Exists(dir, name) => dir[name].content = loc[p].content
                /\ ~Exists(dir', TempName(sha256, p))
                /\ \A n \in DOMAIN dir' : n.suffix # "" => n \in DOMAIN dir
                /\ \A c \in Contents \ {loc[p].content} :
                      LET other == BlobName(sha256_sum(c)) IN
                      /\ other # name
                      /\ Exists(dir, other)
                         => Exists(dir', other) /\ dir'[other] = dir[other]]_vars
    /\ []((\A p \in BlobClients : pc[p] = "idle")
          => \A n \in DOMAIN dir : n.suffix = "")

\* C21 witness: two create_blob calls have returned the same hash, no call
\* is in progress, and the directory holds the blobs of both contents
C21_Witness ==
    /\ \E p, q \in BlobClients :
          /\ p # q
          /\ ret[p].op = "create_blob" /\ ret[p].err = "OK"
          /\ ret[q].op = "create_blob" /\ ret[q].err = "OK"
          /\ ret[p].val = ret[q].val
    /\ \A p \in BlobClients : pc[p] = "idle"
    /\ \A c \in Contents : Exists(dir, BlobName(sha256_sum(c)))
    /\ Cardinality(DOMAIN dir) = Cardinality(Contents)


\* C22: a delete_unreferenced_blobs call never ends on an exception: when
\* the call of a cleaner ends, every entry it listed has been processed
\* and it returns normally, even when an entry it listed has disappeared.
C22_ScanNeverAborts ==
    [][\A p \in Cleaners :
          (pc[p] \in {"stat", "unlink"} /\ pc'[p] = "idle")
          => /\ ret'[p].err = "OK"
             /\ pc[p] = "stat" /\ loc[p].todo = {}]_vars


\* the number of events e in a list of events
Count(events, e) == Cardinality({i \in 1..Len(events) : events[i] = e})

\* C23: after a public Database operation has returned or raised, the
\* connection it opened is closed.
C23_ConnectionClosedOnEveryExit ==
    last.op # "none"
    => /\ Count(last.val, "connect") = 1
       /\ Count(last.val, "close") = 1
       /\ last.val[Len(last.val)] = "close"

\* C24: a Database operation called with an invalid name, hash or star
\* raises the validation error before a connection is opened and before a
\* PRAGMA or a statement is executed.
C24_ValidatesBeforeStorage ==
    (last.op # "none" /\ last.err \in ValidationErrors)
    => \A i \in 1..Len(last.val) :
          last.val[i] \notin {"connect", "PRAGMA", "execute"}


\* the labels of a cleanup that has run its DELETE statement
AfterDelete == {"retrieve_sha256s", "listdir", "stat", "unlink"}

\* C25: in a cleanup run with no other call in progress, the first step
\* deletes the versions that are obsolete and their file rows; the snapshot
\* of the hashes is taken after it and is the set of the hashes of the
\* rows that remain; the tables do not change until the cleanup returns;
\* and when it returns, no entry older than its grace window whose name is
\* not in the snapshot is left: the blob of a hash orphaned by this
\* cleanup is removed by this cleanup.
C25_DeleteBeforeSnapshot ==
    [][\A g \in Cleaners :
          /\ (pc[g] = "idle" /\ pc'[g] = "retrieve_sha256s")
             => LET expired == {v \in versions :
                                  ~v.star /\ v.timestamp <= now - ObsoleteAge}
                IN /\ versions' = versions \ expired
                   /\ files' = {f \in files :
                                  \A v \in expired : f.version_id # v.id}
          /\ (pc[g] = "retrieve_sha256s" /\ pc'[g] = "listdir")
             => loc'[g].sha256s = {f.sha256 : f \in files}
          /\ (pc[g] \in AfterDelete) => UNCHANGED dbvars
          /\ (pc[g] = "stat" /\ pc'[g] = "idle")
             => /\ ret'[g].err = "OK"
                /\ loc[g].sha256s = {f.sha256 : f \in files'}
                /\ \A n \in DOMAIN dir' :
                      ~InSha256s(n, loc[g].sha256s)
                      => dir'[n].mtime > loc[g].now - GraceWindow]_vars

\* C25 witness: a cleanup has returned; the version of the last upload has
\* expired and its blob is gone, while a starred version uploaded no later
\* keeps its file and its blob
C25_Witness ==
    \E p \in Clients, g \in Cleaners :
       /\ ret[g].op = "cleanup" /\ ret[g].err = "OK"
       /\ ret[p].op = "upload" /\ ret[p].err = "OK"
       /\ VersionRows(DB, ret[p].val[1], ret[p].val[2]) = {}
       /\ ~Exists(dir, BlobName(sha256_sum(ret[p].val[4])))
       /\ \E v \in versions, f \in files :
             /\ v.star /\ v.timestamp <= now - ObsoleteAge
             /\ f.version_id = v.id
             /\ Exists(dir, BlobName(f.sha256))


\* C26: no step deletes a project row: in every state reached by uploads,
\* stars and cleanups, list_projects returns the name of every project
\* created so far, and list_versions of each of them succeeds, with the
\* empty list when the project has no version left.
C26_CleanupKeepsProjects ==
    /\ [][\A p \in projects : p \in projects']_vars
    /\ [](\A p \in projects :
             /\ list_projects(DB).err = "OK"
             /\ \A r \in list_projects(DB).vals :
                   \E i \in 1..Len(r) : r[i].name = p.name
             /\ list_versions(DB, p.name, now).err = "OK"
             /\ {v \in versions : v.project_id = p.id} = {}
                => list_versions(DB, p.name, now).vals = {<<>>})

\* C26 witness: a cleanup has returned, it has pruned the version of the
\* last upload, and the project is left with no version
C26_Witness ==
    \E p \in Clients, g \in Cleaners :
       /\ ret[g].op = "cleanup" /\ ret[g].err = "OK"
       /\ ret[p].op = "upload" /\ ret[p].err = "OK"
       /\ \E r \in projects : r.name = ret[p].val[1]
       /\ versions = {}
       /\ files = {}


\* the error kind of an exception, by its message: the validators, the
\* absent project, version, file or blob, the duplicate file
ErrorKind(err) ==
    CASE err = "Invalid name" -> "invalid-name"
      [] err = "Invalid SHA-256 hash" -> "invalid-sha256"
      [] err = "Invalid star state" -> "invalid-star-state"
      [] err \in {"Project not found", "Version not found",
                  "File not found", "Blob not found"} -> "not-found"
      [] err = "Unable to create file" -> "duplicate-file"
      [] OTHER -> "internal"

\* C27: when download has found the file row and retrieve_blob finds no
\* blob under its hash, download fails with an error of the internal kind,
\* not of the not-found kind.
C27_MissingBlobIsInternalError ==
    [][\A p \in Clients :
          (/\ pc[p] = "retrieve_blob" /\ pc'[p] = "idle"
           /\ ~Exists(dir, BlobName(loc[p].sha256)))
          => /\ ret'[p].err # "OK"
             /\ ErrorKind(ret'[p].err) = "internal"]_vars


\* C28: on the project, version, download, star and unstar routes, a
\* failure of the Engine of the not-found kind is answered with status 404
\* and any other failure with status 500.
C28_NotFoundIs404 ==
    (/\ last.op \in {"project", "version", "download", "star", "unstar"}
     /\ last.err # "OK")
    => last.val = <<IF ErrorKind(last.err) = "not-found" THEN 404 ELSE 500>>


\* C29: in a sequential run of uploads, stars, unstars and cleanups, no
\* step of a cleanup removes a blob whose hash a file row holds, and in
\* every state the download of every file row succeeds with the complete
\* content of its hash.
C29_SharedBlobSurvives ==
    /\ [][\A n \in DOMAIN dir \ DOMAIN dir' :
             ~InSha256s(n, {f.sha256 : f \in files'})]_vars
    /\ [](\A p \in projects, v \in versions, f \in files :
             (v.project_id = p.id /\ f.version_id = v.id)
             => LET r == download(DB, dir, p.name, v.name, f.name) IN
                /\ r.err = "OK"
                /\ r.val[2]
                /\ sha256_sum(r.val[1]) = f.sha256)

\* C29 witness: a cleanup has returned; the version of the last upload has
\* been pruned, and a file of another version holds the same hash, its
\* blob still there and older than the grace window
C29_Witness ==
    \E p \in Clients, g \in Cleaners :
       /\ ret[g].op = "cleanup" /\ ret[g].err = "OK"
       /\ ret[p].op = "upload" /\ ret[p].err = "OK"
       /\ VersionRows(DB, ret[p].val[1], ret[p].val[2]) = {}
       /\ \E f \in files :
             /\ f.sha256 = sha256_sum(ret[p].val[4])
             /\ Exists(dir, BlobName(f.sha256))
             /\ dir[BlobName(f.sha256)].mtime <= now - GraceWindow


\* the (project, version, file) of a create_file call
Triple(call) == <<call.project_name, call.version_name, call.file_name>>

\* the rows of the three tables for the names of a call
RowsOf(db, call) ==
    [projects |-> {r \in db.projects : r.name = call.project_name},
     versions |-> VersionRows(db, call.project_name, call.version_name),
     files |-> FileRows(db, call.project_name, call.version_name,
                        call.file_name)]

\* C30: with concurrent create_file calls, a call on a triple succeeds
\* when the triple has no file row and fails with 'Unable to create file'
\* when it has one, so of the calls on one triple the first to write
\* succeeds and every other fails; no two calls on one triple have both
\* succeeded; once a call on a triple has returned either way, there is
\* one project row, one version row and one file row for it, the file row
\* holding the sha256 of the call that succeeded.  (A connection waits
\* for the write lock; busy_timeout gives it 10 s.)
C30_OneCreateFileWins ==
    /\ [][\A p \in BlobClients :
             (pc[p] = "insert_file" /\ pc'[p] = "idle")
             => (ret'[p].err
                 = IF RowsOf(DB, loc[p].call).files = {}
                   THEN "OK" ELSE "Unable to create file")]_vars
    /\ [](\A p, q \in BlobClients :
             (/\ p # q
              /\ ret[p].op = "create_file" /\ ret[p].err = "OK"
              /\ ret[q].op = "create_file" /\ ret[q].err = "OK")
             => Triple(ret[p].val) # Triple(ret[q].val))
    /\ [](\A p \in BlobClients :
             (/\ ret[p].op = "create_file"
              /\ ret[p].err \in {"OK", "Unable to create file"})
             => LET rows == RowsOf(DB, ret[p].val) IN
                /\ Cardinality(rows.projects) = 1
                /\ Cardinality(rows.versions) = 1
                /\ Cardinality(rows.files) = 1
                /\ ret[p].err = "OK"
                   => \A f \in rows.files : f.sha256 = ret[p].val.sha256)

\* C30 witness: two calls on one triple with different hashes have
\* returned, one with success and one with 'Unable to create file', and
\* the file row holds the hash of the first
C30_Witness ==
    \E p, q \in BlobClients :
       /\ ret[p].op = "create_file" /\ ret[p].err = "OK"
       /\ ret[q].op = "create_file"
       /\ ret[q].err = "Unable to create file"
       /\ Triple(ret[p].val) = Triple(ret[q].val)
       /\ ret[p].val.sha256 # ret[q].val.sha256
       /\ ret[q].val.timestamp <= ret[p].val.timestamp
       /\ \A f \in RowsOf(DB, ret[p].val).files :
             f.sha256 = ret[p].val.sha256


\* the create_blob of p has opened its temp file and not yet renamed it
InCreateBlob(p) == pc[p] \in {"write", "utime", "replace"}

\* C31: with a cleanup running concurrently, the temp file of a
\* create_blob in progress is removed by no step but the rename of that
\* create_blob, and no step of create_blob ends on FileNotFoundError.
C31_CleanupNeverFailsCreateBlob ==
    [][\A p \in Clients :
          InCreateBlob(p)
          => LET temp == TempName(loc[p].sha256, p) IN
             /\ (Exists(dir, temp) /\ ~Exists(dir', temp))
                => (pc[p] = "replace" /\ pc'[p] # "replace")
             /\ ret'[p].err # "FileNotFoundError"]_vars


\* the instants at which the two are compared, in seconds from now
Instants == {0, 59, 60, 61}

\* C32: at every instant t, list_versions gives a starred version its
\* date alone and an unstarred version its date, ', ' and a suffix, and
\* that suffix is 'expired' exactly when
\* delete_obsolete_versions(obsolete_age) run at t would delete the
\* version.
C32_ExpiryAgrees ==
    \A p \in projects, d \in Instants :
       LET t == now + d
           kept == delete_obsolete_versions(DB, t - ObsoleteAge).versions
           r == list_versions(DB, p.name, t) IN
       /\ r.err = "OK"
       /\ \A val \in r.vals : \A i \in 1..Len(val) :
             LET v == CHOOSE w \in versions :
                         w.project_id = p.id /\ w.name = val[i].name
                 day == strftime(val[i].timestamp)
                 date == val[i].date IN
             IF val[i].star THEN date = day
             ELSE /\ Len(date) > Len(day) + 1
                  /\ SubSeq(date, 1, Len(day) + 1) = day \o <<", ">>
                  /\ (SubSeq(date, Len(day) + 2, Len(date)) = <<"expired">>)
                     <=> (v \notin kept)

\* C32 witness: list_versions run now shows an unstarred version as
\* 'expired', another unstarred version as 'expires in 1 minute', and a
\* starred version with its date alone
C32_Witness ==
    \E p \in projects : \E val \in list_versions(DB, p.name, now).vals :
       \E i, j \in 1..Len(val) :
          /\ ~val[i].star
          /\ val[i].date = strftime(val[i].timestamp) \o <<", ", "expired">>
          /\ \/ /\ val[j].star
                /\ val[j].date = strftime(val[j].timestamp)
             \/ /\ ~val[j].star
                /\ val[j].date
                   = strftime(val[j].timestamp)
                     \o <<", ", "expires in ", <<"1">>, " ", "minute", "">>


\* the names of the file rows a step may look at
FileTriples == ProjectNames \X VersionNames \X FileNames

\* the version of file row f is still there after the step
VersionKept(f) ==
    \E v \in versions, w \in versions' :
       /\ v.id = f.version_id
       /\ w.id = v.id /\ w.project_id = v.project_id /\ w.name = v.name

\* C33: in every step of upload, download, star_version, unstar_version
\* and cleanup, a file row (P, V, F) whose version is not deleted by the
\* step keeps its sha256, a download of (P, V, F) run after the step
\* gives what a download run before it gives, and a download that reads
\* the blob returns the whole content whose hash is the sha256 of the row.
C33_ContentMappingImmutable ==
    [][/\ \A a \in FileTriples :
             LET rows == FileRows(DB, a[1], a[2], a[3]) IN
             \A f \in rows :
                VersionKept(f)
                => /\ FileRows(DB', a[1], a[2], a[3]) = rows
                   /\ rows = {f}
                   /\ download(DB', dir', a[1], a[2], a[3])
                      = download(DB, dir, a[1], a[2], a[3])
       /\ \A p \in Clients :
             (pc[p] = "idle" /\ pc'[p] = "retrieve_blob")
             => \E f \in files : f.sha256 = loc'[p].sha256
       /\ \A p \in Clients :
             (pc[p] = "retrieve_blob" /\ pc'[p] = "idle")
             => /\ ret'[p].err = "OK"
                /\ sha256_sum(ret'[p].val[1]) = loc[p].sha256
                /\ ret'[p].val[2]]_vars

\* C33 witness: an upload of other content for the names of an existing
\* file row has been refused, the row has its first sha256, and its version
\* is starred
C33_Witness ==
    \E p \in Clients :
       /\ ret[p].op = "upload"
       /\ ret[p].err = "Unable to create file"
       /\ \E f \in FileRows(DB, ret[p].val[1], ret[p].val[2], ret[p].val[3]) :
             /\ f.sha256 # sha256_sum(ret[p].val[4])
             /\ \E v \in versions : v.id = f.version_id /\ v.star


\* the names a file of the data directory can have
DirNames ==
    {BlobName(sha256_sum(c)) : c \in Contents}
    \cup {TempName(sha256_sum(c), p) : c \in Contents, p \in Clients}

\* file n is there, no file row refers to it, and the clock can reach the
\* end of its grace window
Garbage(n) ==
    /\ Exists(dir, n)
    /\ ~InSha256s(n, retrieve_sha256s(DB))
    /\ dir[n].mtime + GraceWindow <= MaxTime

\* version i is there, unstarred, and the clock can reach its obsolete age
Obsolescent(i) ==
    \E v \in versions :
       v.id = i /\ ~v.star /\ v.timestamp + ObsoleteAge <= MaxTime

\* C34: with time advancing and cleanup called again and again, no blob
\* or temp file stays for ever in the directory unreferenced and not
\* rewritten, and no version stays for ever unstarred in the table past
\* its obsolete age.
C34_GarbageEventuallyReclaimed ==
    /\ \A n \in DirNames : []<>(~Garbage(n))
    /\ \A i \in 1..MaxId : []<>(~Obsolescent(i))

====
